---- MODULE Spec2Model ----
(***************************************************************************)
(* Model of superset/commands/sql_lab/save_to_workspace.py:                *)
(* SqlResultSaveToWorkspaceCommand (validate, _get_workspace_path,         *)
(* _get_sql_and_limit, _save_from_cache, _stream_to_file, run), the        *)
(* process-wide _progress_store and get_export_progress.                   *)
(*                                                                         *)
(* Each request thread p runs one command at a time.  Every statement of   *)
(* the command that reads or writes shared state (_progress_store, the     *)
(* destination file) is one action; an exception raised by a step unwinds  *)
(* the enclosing `with` blocks and run()'s handler inside the same action. *)
(***************************************************************************)
EXTENDS Integers, Sequences, FiniteSets, TLC

(* ----------------------------- bounds ---------------------------------- *)

\* Largest number of rows the limit-free query returns.
MaxRows == 3

\* superset: STREAMING_BATCH_SIZE = 10000, scaled down so that a result
\* spans several batches within MaxRows.
STREAMING_BATCH_SIZE == 2

\* Longest file name stem and longest subfolder argument, in characters.
MaxNameLen == 4

Procs == {"p1", "p2"}

\* Client ids that resolve to a Query row, and one that does not.
QueryIds == {"A", "B"}
ClientIds == QueryIds \cup {"Z"}

(* ----------------------------- SQL text -------------------------------- *)
\* SQL text is a sequence of lexical tokens.  "SEL" is a statement body
\* without a limit, "WS" a run of whitespace (\s+), "CMT" a trailing
\* "-- comment", digits are \d+ literals.

Digits == {"1", "2", "3"}
LimitKw == {"LIMIT", "limit"}
OffsetKw == {"OFFSET", "offset"}

NumVal(t) == CASE t = "1" -> 1 [] t = "2" -> 2 [] t = "3" -> 3 [] OTHER -> 0

Min(a, b) == IF a <= b THEN a ELSE b

\* None for an absent limit / absent SQL / unbound local.
NoLimit == -1
NoSql == << >>

\* The executed_sql texts of the modelled Query rows.
SqlPlain == <<"SEL">>
SqlLimit == <<"SEL", "WS", "LIMIT", "WS", "2">>
SqlLimitSemi == <<"SEL", "WS", "limit", "WS", "3", "SEMI", "WS">>
SqlLimitOffset == <<"SEL", "WS", "LIMIT", "WS", "2", "WS", "OFFSET", "WS", "1">>
SqlTwoStmts == <<"SEL", "SEMI", "WS", "SEL", "WS", "LIMIT", "WS", "2">>
SqlLimitComment == <<"SEL", "WS", "LIMIT", "WS", "2", "WS", "CMT">>

ExecutedSqls ==
    {SqlPlain, SqlLimit, SqlLimitSemi, SqlLimitOffset, SqlTwoStmts, SqlLimitComment}

\* (\s*;?\s*)$ : what may follow the LIMIT clause up to the end of the text.
TailForms ==
    {<< >>, <<"WS">>, <<"SEMI">>, <<"WS", "SEMI">>, <<"SEMI", "WS">>,
     <<"WS", "SEMI", "WS">>}

Suffix(s, i) == SubSeq(s, i, Len(s))

\* \s+LIMIT\s+\d+ matched at position i.
LimitClauseAt(s, i) ==
    /\ i >= 1
    /\ i + 3 <= Len(s)
    /\ s[i] = "WS"
    /\ s[i + 1] \in LimitKw
    /\ s[i + 2] = "WS"
    /\ s[i + 3] \in Digits

\* (\s+OFFSET\s+\d+) matched at position j.
OffsetClauseAt(s, j) ==
    /\ j + 3 <= Len(s)
    /\ s[j] = "WS"
    /\ s[j + 1] \in OffsetKw
    /\ s[j + 2] = "WS"
    /\ s[j + 3] \in Digits

\* Position where group 2 of the pattern starts when the whole pattern
\* r'\s+LIMIT\s+\d+(\s+OFFSET\s+\d+)?(\s*;?\s*)$' matches at i, else 0.
\* The optional group is greedy: tried first, skipped on backtracking.
TailStart(s, i) ==
    IF ~LimitClauseAt(s, i) THEN 0
    ELSE IF OffsetClauseAt(s, i + 4) /\ Suffix(s, i + 8) \in TailForms THEN i + 8
    ELSE IF Suffix(s, i + 4) \in TailForms THEN i + 4
    ELSE 0

MatchStarts(s) == {i \in 1..Len(s) : TailStart(s, i) # 0}

SetMin(S) == CHOOSE x \in S : \A y \in S : x <= y

\* re.sub(pattern, r'\2', sql, flags=re.IGNORECASE): the leftmost match is
\* replaced by its group 2; no match leaves the text unchanged.
ReSubLimit(s) ==
    IF MatchStarts(s) = {} THEN s
    ELSE LET i == SetMin(MatchStarts(s))
         IN  SubSeq(s, 1, i - 1) \o Suffix(s, TailStart(s, i))

(* ------------------- SQLScript (superset.sql.parse) -------------------- *)

\* Start of the last statement: after the last ";" that is followed by a
\* statement body.
LastStmtStart(s) ==
    LET semis == {i \in 1..Len(s) :
                    /\ s[i] = "SEMI"
                    /\ \E j \in (i + 1)..Len(s) : s[j] = "SEL"}
    IN  IF semis = {} THEN 1 ELSE (CHOOSE i \in semis : \A k \in semis : k <= i) + 1

LimitPositions(s) == {i \in LastStmtStart(s)..Len(s) : s[i] \in LimitKw}

\* script.statements[-1].get_limit_value()
get_limit_value(s) ==
    IF LimitPositions(s) = {} THEN NoLimit
    ELSE NumVal(s[SetMin(LimitPositions(s)) + 2])

OffsetPositions(s) == {i \in LastStmtStart(s)..Len(s) : s[i] \in OffsetKw}

OffsetValue(s) ==
    IF OffsetPositions(s) = {} THEN 0
    ELSE NumVal(s[SetMin(OffsetPositions(s)) + 2])

(* ----------------------------- database -------------------------------- *)

\* Rows are numbered 1..n in the order the cursor yields them.
Range(a, b) == [i \in 1..(IF b >= a THEN b - a + 1 ELSE 0) |-> a + i - 1]

\* The rows the engine returns for a SQL text whose limit-free result has
\* n rows.
ExecuteRows(s, n) ==
    IF get_limit_value(s) = NoLimit THEN Range(1, n)
    ELSE Range(OffsetValue(s) + 1, Min(n, OffsetValue(s) + get_limit_value(s)))

(* ----------------------------- sanitizers ------------------------------ *)

\* Strings are sequences of characters.  Letters and "_" are the word
\* characters (\w); " " stands for every character outside [\w\-.].
Letters == {"a", "c", "s", "v", "C", "S", "V", "e", "x", "p", "o", "r", "t", "q", "l"}
WordChars == Letters \cup {"_"}
StemChars == {"a", "-", ".", "/", " "}
SubfolderChars == {"a", "_", "-", ".", "/", " "}

\* Every string over the alphabet A of at most n characters.
Strings(A, n) == UNION {[1..k -> A] : k \in 0..n}

\* s[from:]
From(s, from) == SubSeq(s, from, Len(s))

\* os.path.basename(s): what follows the last "/".
basename(s) ==
    LET slashes == {i \in 1..Len(s) : s[i] = "/"}
    IN  IF slashes = {} THEN s
        ELSE From(s, 1 + CHOOSE i \in slashes : \A j \in slashes : j <= i)

\* re.sub(r"[^...]", "_", s) for the character class that keeps `keep`.
ReSubOther(keep, s) == [i \in 1..Len(s) |-> IF s[i] \in keep THEN s[i] ELSE "_"]

\* s.lstrip(chars), s.rstrip(chars), s.strip(chars)
LStrip(chars, s) ==
    LET others == {i \in 1..Len(s) : s[i] \notin chars}
    IN  IF others = {} THEN << >>
        ELSE From(s, CHOOSE i \in others : \A j \in others : i <= j)

RStrip(chars, s) ==
    LET others == {i \in 1..Len(s) : s[i] \notin chars}
    IN  IF others = {} THEN << >>
        ELSE SubSeq(s, 1, CHOOSE i \in others : \A j \in others : j <= i)

Strip(chars, s) == LStrip(chars, RStrip(chars, s))

\* s.lower()
LowerChar(ch) ==
    CASE ch = "C" -> "c" [] ch = "S" -> "s" [] ch = "V" -> "v" [] OTHER -> ch

Lower(s) == [i \in 1..Len(s) |-> LowerChar(s[i])]

\* s.endswith(suffix)
EndsWith(s, suffix) ==
    /\ Len(s) >= Len(suffix)
    /\ From(s, Len(s) - Len(suffix) + 1) = suffix

DotCsv == <<".", "c", "s", "v">>

\* How a file name argument may end: no extension, the extension's letters
\* alone, and ".csv" in three letter cases.
Extensions ==
    {<< >>, <<"c", "s", "v">>, DotCsv, <<".", "C", "S", "V">>,
     <<".", "C", "s", "v">>}
ExportName == <<"e", "x", "p", "o", "r", "t">>
DefaultSubfolder == <<"s", "q", "l", "_", "e", "x", "p", "o", "r", "t", "s">>

\* s.replace("..", ""): occurrences are taken from the left, not overlapping.
RECURSIVE RemoveDotDot(_)
RemoveDotDot(s) ==
    IF Len(s) < 2 THEN s
    ELSE IF s[1] = "." /\ s[2] = "." THEN RemoveDotDot(From(s, 3))
    ELSE <<s[1]>> \o RemoveDotDot(Tail(s))

\* s.split("/"): the parts between the slashes, empty ones included.
RECURSIVE Split(_)
Split(s) ==
    LET slashes == {i \in 1..Len(s) : s[i] = "/"}
    IN  IF slashes = {} THEN <<s>>
        ELSE LET i == CHOOSE k \in slashes : \A j \in slashes : k <= j
             IN  <<SubSeq(s, 1, i - 1)>> \o Split(From(s, i + 1))

\* "/".join(parts)
RECURSIVE Join(_)
Join(parts) ==
    IF parts = << >> THEN << >>
    ELSE IF Len(parts) = 1 THEN parts[1]
    ELSE parts[1] \o <<"/">> \o Join(Tail(parts))

\* Faulty variant: ".csv" is appended without looking at the name's end.
sanitize_filename_always_appending(name) ==
    LET replaced == ReSubOther(WordChars \cup {"-", "."}, basename(name))
        stripped == LStrip({"."}, replaced)
    IN  (IF stripped = << >> THEN ExportName ELSE stripped) \o DotCsv

\* Faulty variant: leading dots are kept.
sanitize_filename_keeping_dots(name) ==
    LET replaced == ReSubOther(WordChars \cup {"-", "."}, basename(name))
        named == IF replaced = << >> THEN ExportName ELSE replaced
    IN  IF EndsWith(Lower(named), DotCsv) THEN named ELSE named \o DotCsv

\* sanitize_filename(filename)
sanitize_filename(name) ==
    LET replaced == ReSubOther(WordChars \cup {"-", "."}, basename(name))
        stripped == LStrip({"."}, replaced)
        named == IF stripped = << >> THEN ExportName ELSE stripped
    IN  IF EndsWith(Lower(named), DotCsv) THEN named ELSE named \o DotCsv

\* Faulty variant: ".." is not removed and the character class keeps dots,
\* as the one of sanitize_filename does.
sanitize_subfolder_keeping_dots(folder) ==
    LET parts == Split(Strip({"/"}, folder))
        clean == [i \in 1..Len(parts) |->
                    Strip({"_"}, ReSubOther(WordChars \cup {"-", "."}, parts[i]))]
        kept == SelectSeq(clean, LAMBDA part : part # << >>)
    IN  IF kept = << >> THEN DefaultSubfolder ELSE Join(kept)

\* sanitize_subfolder(subfolder)
sanitize_subfolder(folder) ==
    LET parts == Split(Strip({"/"}, RemoveDotDot(folder)))
        clean == [i \in 1..Len(parts) |->
                    Strip({"_"}, ReSubOther(WordChars \cup {"-"}, parts[i]))]
        kept == SelectSeq(clean, LAMBDA part : part # << >>)
    IN  IF kept = << >> THEN DefaultSubfolder ELSE Join(kept)

\* os.path.expanduser("~/work")
WorkDir == <<"/", "w", "o", "r", "k">>

\* os.path.join(a, b): an absolute b replaces a.
PathJoin(a, b) ==
    IF b # << >> /\ b[1] = "/" THEN b
    ELSE IF a # << >> /\ a[Len(a)] = "/" THEN a \o b
    ELSE a \o <<"/">> \o b

\* _get_workspace_path: the directory that is created, and the path returned.
full_dir(folder) ==
    IF folder = << >> \/ Strip({" "}, folder) = << >> THEN WorkDir
    ELSE PathJoin(WorkDir, folder)

filepath(folder, name) == PathJoin(full_dir(folder), name)

(* ----------------------------- state ----------------------------------- *)

VARIABLES
    pc,              \* position of each request thread in run()
    client_id,       \* self._client_id
    streaming,       \* self._streaming
    filename,        \* self._filename
    subfolder,       \* self._subfolder
    query,           \* self._query
    full,            \* rows of the limit-free result of the query's SQL
    sql,             \* _stream_to_file: the SQL text that is executed
    total_rows,      \* _stream_to_file: local total_rows (Unbound until set)
    result,          \* rows the open cursor has not yielded yet
    rows,            \* rows of the fetched batch not written yet
    writer,          \* writer is not None (the header has been written)
    row_count,       \* _stream_to_file: local row_count
    df,              \* _save_from_cache: the DataFrame's rows
    held,            \* scoped resources the thread holds
    calls,           \* exporter invocations made by the current run()
    outcome,         \* what run() returned or raised
    progress_store,  \* _progress_store
    files,           \* the file at each command's filepath
    dirs             \* whether each command's full_dir exists

cmdVars == <<client_id, streaming, filename, subfolder, query, full>>
locVars == <<sql, total_rows, result, rows, writer, row_count, df>>
fsVars == <<files, dirs>>
vars == <<pc, cmdVars, locVars, held, calls, outcome, progress_store, fsVars>>

Unbound == -1
Header == 0
OldRow == -2

NoFile == [exists |-> FALSE, rows |-> << >>]
OldFile == [exists |-> TRUE, rows |-> <<Header, OldRow>>]

NoEntry == [processed |-> 0, total |-> 0, status |-> "absent"]
NoQuery == [executed_sql |-> NoSql, select_sql |-> NoSql,
            limiting_factor |-> "NONE", results_key |-> FALSE]
Unstructured == -1
NoOutcome == [kind |-> "none", status |-> 0, row_count |-> 0, error |-> ""]

LimitingFactors == {"NONE", "QUERY", "DROPDOWN", "QUERY_AND_DROPDOWN", "UNKNOWN"}
DecrementFactors == {"QUERY", "DROPDOWN", "QUERY_AND_DROPDOWN"}

\* The Query rows a lookup can return.
QueryRecords ==
    [executed_sql : ExecutedSqls, select_sql : {NoSql},
     limiting_factor : {"NONE", "QUERY"}, results_key : {TRUE}]
    \cup {[executed_sql |-> SqlLimit, select_sql |-> SqlPlain,
           limiting_factor |-> "DROPDOWN", results_key |-> TRUE],
          [executed_sql |-> SqlLimit, select_sql |-> NoSql,
           limiting_factor |-> "QUERY", results_key |-> FALSE]}

\* <<filename, subfolder>> arguments of a command: a plain file name and
\* the default subfolder.
DefaultNames == {<<<<"a">> \o DotCsv, DefaultSubfolder>>}

\* Workloads: which client ids are requested, which Query rows exist, and
\* how commands may overlap.
Serial ==
    [procs |-> {"p1"}, ids |-> {"A", "Z"}, recs |-> QueryRecords,
     olds |-> {NoFile, OldFile}, mode |-> "serial", rerun |-> TRUE,
     names |-> DefaultNames]

\* Two threads export at the same time, once, and never the same client id.
ConcurrentRecords ==
    {[executed_sql |-> SqlPlain, select_sql |-> NoSql,
      limiting_factor |-> "NONE", results_key |-> TRUE],
     [executed_sql |-> SqlLimit, select_sql |-> NoSql,
      limiting_factor |-> "QUERY", results_key |-> TRUE]}

Distinct ==
    [procs |-> Procs, ids |-> ClientIds, recs |-> ConcurrentRecords,
     olds |-> {NoFile}, mode |-> "distinct", rerun |-> FALSE,
     names |-> DefaultNames]

\* One command at a time, once, over every shape of Query row: each executed
\* SQL text, with and without select_sql, under every limiting factor.
ResolveRecords ==
    [executed_sql : ExecutedSqls, select_sql : {NoSql, SqlPlain},
     limiting_factor : LimitingFactors, results_key : BOOLEAN]

Resolve ==
    [procs |-> {"p1"}, ids |-> {"A", "Z"}, recs |-> ResolveRecords,
     olds |-> {NoFile}, mode |-> "serial", rerun |-> FALSE,
     names |-> DefaultNames]

\* Commands are constructed over every file name that is a stem of at most
\* MaxNameLen characters followed by one of the extensions, and over every
\* subfolder of at most MaxNameLen characters.
AllNames ==
    {<<stem \o ext, DefaultSubfolder>> :
        stem \in Strings(StemChars, MaxNameLen), ext \in Extensions}
    \cup {<<<<"a">>, folder>> : folder \in Strings(SubfolderChars, MaxNameLen)}

Names ==
    [procs |-> {"p1"}, ids |-> {"A"}, recs |-> {}, olds |-> {NoFile},
     mode |-> "serial", rerun |-> FALSE, names |-> AllNames]

\* Two threads export once each, at any time and for any client id: the
\* same id one after the other, or both at once.
Overlap ==
    [procs |-> Procs, ids |-> {"A", "Z"}, recs |-> ConcurrentRecords,
     olds |-> {NoFile}, mode |-> "overlap", rerun |-> FALSE,
     names |-> DefaultNames]

Running(p) == pc[p] \notin {"idle", "done"}

MayStart(p, cid, W) ==
    CASE W.mode = "serial" -> \A o \in Procs \ {p} : ~Running(o)
      [] W.mode = "distinct" ->
            \A o \in Procs \ {p} : pc[o] # "idle" => client_id[o] # cid
      [] OTHER -> TRUE

Init ==
    /\ pc = [p \in Procs |-> "idle"]
    /\ client_id = [p \in Procs |-> "Z"]
    /\ streaming = [p \in Procs |-> FALSE]
    /\ filename = [p \in Procs |-> << >>]
    /\ subfolder = [p \in Procs |-> << >>]
    /\ query = [p \in Procs |-> NoQuery]
    /\ full = [p \in Procs |-> 0]
    /\ sql = [p \in Procs |-> NoSql]
    /\ total_rows = [p \in Procs |-> Unbound]
    /\ result = [p \in Procs |-> << >>]
    /\ rows = [p \in Procs |-> << >>]
    /\ writer = [p \in Procs |-> FALSE]
    /\ row_count = [p \in Procs |-> 0]
    /\ df = [p \in Procs |-> << >>]
    /\ held = [p \in Procs |-> {}]
    /\ calls = [p \in Procs |-> 0]
    /\ outcome = [p \in Procs |-> NoOutcome]
    /\ progress_store = [c \in ClientIds |-> NoEntry]
    /\ files = [p \in Procs |-> NoFile]
    /\ dirs = [p \in Procs |-> FALSE]

(* ----------------------------- helpers --------------------------------- *)

get_export_progress(c) == progress_store[c]

\* Locals of the exporter's frame are gone once run() has returned or raised.
ClearLocals(p) ==
    /\ sql' = [sql EXCEPT ![p] = NoSql]
    /\ total_rows' = [total_rows EXCEPT ![p] = Unbound]
    /\ result' = [result EXCEPT ![p] = << >>]
    /\ rows' = [rows EXCEPT ![p] = << >>]
    /\ writer' = [writer EXCEPT ![p] = FALSE]
    /\ row_count' = [row_count EXCEPT ![p] = 0]
    /\ df' = [df EXCEPT ![p] = << >>]

\* Faulty variant: the connection and the engine are not acquired in `with` blocks.
ReleaseFileOnly(p) == held' = [held EXCEPT ![p] = @ \ {"file"}]

\* Leaving the `with` blocks, normally or by an exception, releases what
\* they acquired.
ReleaseAll(p) == held' = [held EXCEPT ![p] = {}]

\* An exception that leaves run() unhandled (raised outside its try block).
RaiseOut(p, status, error) ==
    /\ pc' = [pc EXCEPT ![p] = "done"]
    /\ outcome' = [outcome EXCEPT ![p] =
                     [kind |-> "error", status |-> status, row_count |-> 0,
                      error |-> error]]
    /\ ReleaseAll(p)
    /\ ClearLocals(p)

\* Faulty variant: run() calls the exporter without its try/except.
ExportFailedUnwrapped(p, error) == RaiseOut(p, Unstructured, error)

\* run(), lines 390-399: any Exception of the exporter becomes the
\* export-failed SupersetErrorException carrying str(ex).
ExportFailed(p, error) == RaiseOut(p, 500, error)

(* ----------------------------- run() ----------------------------------- *)

\* __init__ of a new command on thread p.
Construct(p, W) ==
    /\ pc[p] = "idle" \/ (W.rerun /\ pc[p] = "done")
    /\ \E cid \in W.ids, s \in BOOLEAN, old \in W.olds, args \in W.names :
         /\ MayStart(p, cid, W)
         /\ filename' = [filename EXCEPT ![p] = sanitize_filename(args[1])]
         /\ subfolder' = [subfolder EXCEPT ![p] = sanitize_subfolder(args[2])]
         /\ client_id' = [client_id EXCEPT ![p] = cid]
         /\ streaming' = [streaming EXCEPT ![p] = s]
         /\ files' = [files EXCEPT ![p] = old]
         /\ dirs' = [dirs EXCEPT ![p] = old.exists]
    /\ pc' = [pc EXCEPT ![p] = "validate"]
    /\ query' = [query EXCEPT ![p] = NoQuery]
    /\ full' = [full EXCEPT ![p] = 0]
    /\ calls' = [calls EXCEPT ![p] = 0]
    /\ outcome' = [outcome EXCEPT ![p] = NoOutcome]
    /\ UNCHANGED <<locVars, held, progress_store>>

\* Faulty variant: run() resolves the destination path before it validates.
ValidateNotFoundAfterMakedirs(p) ==
    /\ pc[p] = "validate"
    /\ client_id[p] \notin QueryIds
    /\ dirs' = [dirs EXCEPT ![p] = TRUE]
    /\ RaiseOut(p, 404, "RESULTS_BACKEND_ERROR")
    /\ UNCHANGED <<cmdVars, calls, progress_store, files>>

\* validate(): the lookup finds no Query row.
ValidateNotFound(p) ==
    /\ pc[p] = "validate"
    /\ client_id[p] \notin QueryIds
    /\ RaiseOut(p, 404, "RESULTS_BACKEND_ERROR")
    /\ UNCHANGED <<cmdVars, calls, progress_store, fsVars>>

\* Faulty variant: run() resolves the destination path before it validates.
ValidateDeniedAfterMakedirs(p, W) ==
    /\ pc[p] = "validate"
    /\ client_id[p] \in QueryIds
    /\ \E q \in W.recs : query' = [query EXCEPT ![p] = q]
    /\ dirs' = [dirs EXCEPT ![p] = TRUE]
    /\ RaiseOut(p, 403, "QUERY_SECURITY_ACCESS_ERROR")
    /\ UNCHANGED <<client_id, streaming, filename, subfolder, full, calls,
                   progress_store, files>>

\* validate(): the row is found and raise_for_access() denies it.
ValidateDenied(p, W) ==
    /\ pc[p] = "validate"
    /\ client_id[p] \in QueryIds
    /\ \E q \in W.recs : query' = [query EXCEPT ![p] = q]
    /\ RaiseOut(p, 403, "QUERY_SECURITY_ACCESS_ERROR")
    /\ UNCHANGED <<client_id, streaming, filename, subfolder, full, calls,
                   progress_store, fsVars>>

\* validate(): the row is found and access is granted.
ValidateOk(p, W) ==
    /\ pc[p] = "validate"
    /\ client_id[p] \in QueryIds
    /\ \E q \in W.recs, n \in 0..MaxRows :
         /\ query' = [query EXCEPT ![p] = q]
         /\ full' = [full EXCEPT ![p] = n]
    /\ pc' = [pc EXCEPT ![p] = "path"]
    /\ UNCHANGED <<client_id, streaming, filename, subfolder, locVars, held,
                   calls, outcome, progress_store, fsVars>>

\* _get_workspace_path(): os.makedirs(full_dir, exist_ok=True) succeeds.
GetWorkspacePath(p) ==
    /\ pc[p] = "path"
    /\ dirs' = [dirs EXCEPT ![p] = TRUE]
    /\ pc' = [pc EXCEPT ![p] = "dispatch"]
    /\ UNCHANGED <<cmdVars, locVars, held, calls, outcome, progress_store, files>>

\* _get_workspace_path(): os.makedirs raises OSError; the call is made
\* before run() enters its try block.
MakedirsFails(p) ==
    /\ pc[p] = "path"
    /\ ~dirs[p]
    /\ RaiseOut(p, Unstructured, "OSError")
    /\ UNCHANGED <<cmdVars, calls, progress_store, fsVars>>

\* run(), lines 385-389: the one call of the selected exporter.
RunDispatch(p) ==
    /\ pc[p] = "dispatch"
    /\ calls' = [calls EXCEPT ![p] = @ + 1]
    /\ pc' = [pc EXCEPT ![p] = IF streaming[p] THEN "prepare" ELSE "cache"]
    /\ UNCHANGED <<cmdVars, locVars, held, outcome, progress_store, fsVars>>

(* ------------------------ _get_sql_and_limit --------------------------- *)

\* Faulty variant: the limit is decremented whatever the limiting factor.
get_sql_and_limit_always_decrementing(q) ==
    IF q.select_sql # NoSql THEN <<q.select_sql, NoLimit>>
    ELSE LET limit == get_limit_value(q.executed_sql)
         IN  <<q.executed_sql, IF limit # NoLimit THEN limit - 1 ELSE limit>>

\* <<sql, limit>> for a Query row.
get_sql_and_limit(q) ==
    IF q.select_sql # NoSql THEN <<q.select_sql, NoLimit>>
    ELSE LET limit == get_limit_value(q.executed_sql)
         IN  <<q.executed_sql,
               IF limit # NoLimit /\ q.limiting_factor \in DecrementFactors
               THEN limit - 1 ELSE limit>>

(* -------------------------- _stream_to_file ---------------------------- *)

\* Lines 278-301: the SQL text streaming mode executes.
StreamSql(q) ==
    LET sl == get_sql_and_limit(q)
    IN  IF q.select_sql # NoSql THEN q.select_sql
        ELSE IF sl[2] # NoLimit THEN ReSubLimit(sl[1])
        ELSE sl[1]

\* "SELECT COUNT(*) as count FROM ({sql}) as subquery" is a statement the
\* engine can run only if {sql} is a single statement without a trailing
\* ";" or comment.
Embeddable(s) == \A i \in 1..Len(s) : s[i] \notin {"SEMI", "CMT"}

Entry(processed, total, status) ==
    [processed |-> processed, total |-> total, status |-> status]

\* Lines 278-303.
StreamPrepare(p) ==
    /\ pc[p] = "prepare"
    /\ sql' = [sql EXCEPT ![p] = StreamSql(query[p])]
    /\ row_count' = [row_count EXCEPT ![p] = 0]
    /\ pc' = [pc EXCEPT ![p] = "start"]
    /\ UNCHANGED <<cmdVars, total_rows, result, rows, writer, df, held, calls,
                   outcome, progress_store, fsVars>>

\* _get_sql_and_limit or SQLScript raises (lines 278-282).
PrepareFails(p) ==
    /\ pc[p] = "prepare"
    /\ ExportFailed(p, "parse")
    /\ UNCHANGED <<cmdVars, calls, progress_store, fsVars>>

\* Faulty variant: an existing entry is updated in place and keeps its total.
ProgressStartUpdatingInPlace(p) ==
    /\ pc[p] = "start"
    /\ progress_store' =
         [progress_store EXCEPT ![client_id[p]] =
            IF @ = NoEntry THEN Entry(0, -1, "counting")
            ELSE Entry(0, @.total, "counting")]
    /\ pc' = [pc EXCEPT ![p] = "connect"]
    /\ UNCHANGED <<cmdVars, locVars, held, calls, outcome, fsVars>>

\* Faulty variant: the store is rebound to a new dict holding only this entry.
ProgressStartRebinding(p) ==
    /\ pc[p] = "start"
    /\ progress_store' =
         [c \in ClientIds |->
            IF c = client_id[p] THEN Entry(0, -1, "counting") ELSE NoEntry]
    /\ pc' = [pc EXCEPT ![p] = "connect"]
    /\ UNCHANGED <<cmdVars, locVars, held, calls, outcome, fsVars>>

\* Lines 307-311: the entry of this client id is replaced.
ProgressStart(p) ==
    /\ pc[p] = "start"
    /\ progress_store' =
         [progress_store EXCEPT ![client_id[p]] = Entry(0, -1, "counting")]
    /\ pc' = [pc EXCEPT ![p] = "connect"]
    /\ UNCHANGED <<cmdVars, locVars, held, calls, outcome, fsVars>>

\* Lines 314-318: both `with` blocks are entered.
Connect(p) ==
    /\ pc[p] = "connect"
    /\ held' = [held EXCEPT ![p] = {"engine", "connection"}]
    /\ pc' = [pc EXCEPT ![p] = "count"]
    /\ UNCHANGED <<cmdVars, locVars, calls, outcome, progress_store, fsVars>>

\* get_sqla_engine() or engine.connect() raises.
ConnectFails(p) ==
    /\ pc[p] = "connect"
    /\ ExportFailed(p, "connect")
    /\ UNCHANGED <<cmdVars, calls, progress_store, fsVars>>

\* Lines 321-324: the count succeeds and total is stored.
CountOk(p) ==
    /\ pc[p] = "count"
    /\ Embeddable(sql[p])
    /\ LET n == Len(ExecuteRows(sql[p], full[p]))
       IN  /\ total_rows' = [total_rows EXCEPT ![p] = n]
           /\ progress_store' =
                [progress_store EXCEPT ![client_id[p]].total = n]
    /\ pc' = [pc EXCEPT ![p] = "exporting"]
    /\ UNCHANGED <<cmdVars, sql, result, rows, writer, row_count, df, held,
                   calls, outcome, fsVars>>

\* Line 325.
SetExporting(p) ==
    /\ pc[p] = "exporting"
    /\ progress_store' =
         [progress_store EXCEPT ![client_id[p]].status = "exporting"]
    /\ pc' = [pc EXCEPT ![p] = "execute"]
    /\ UNCHANGED <<cmdVars, locVars, held, calls, outcome, fsVars>>

\* Faulty variant: the count query is not guarded by try/except.
CountFailsAborting(p) ==
    /\ pc[p] = "count"
    /\ ExportFailed(p, "count")
    /\ UNCHANGED <<cmdVars, calls, progress_store, fsVars>>

\* Lines 327-330: the count raises; the handler sets the status and the
\* export goes on.
CountFails(p) ==
    /\ pc[p] = "count"
    /\ progress_store' =
         [progress_store EXCEPT ![client_id[p]].status = "exporting"]
    /\ pc' = [pc EXCEPT ![p] = "execute"]
    /\ UNCHANGED <<cmdVars, locVars, held, calls, outcome, fsVars>>

\* Lines 333-335: the main query is executed with a streaming cursor.
ExecuteQuery(p) ==
    /\ pc[p] = "execute"
    /\ result' = [result EXCEPT ![p] = ExecuteRows(sql[p], full[p])]
    /\ pc' = [pc EXCEPT ![p] = "open"]
    /\ UNCHANGED <<cmdVars, sql, total_rows, rows, writer, row_count, df, held,
                   calls, outcome, progress_store, fsVars>>

ExecuteFails(p) ==
    /\ pc[p] = "execute"
    /\ ExportFailed(p, "execute")
    /\ UNCHANGED <<cmdVars, calls, progress_store, fsVars>>

\* Line 337: open(filepath, "w") creates or truncates the file.
OpenFile(p) ==
    /\ pc[p] = "open"
    /\ files' = [files EXCEPT ![p] = [exists |-> TRUE, rows |-> << >>]]
    /\ held' = [held EXCEPT ![p] = @ \cup {"file"}]
    /\ writer' = [writer EXCEPT ![p] = FALSE]
    /\ pc' = [pc EXCEPT ![p] = "fetch"]
    /\ UNCHANGED <<cmdVars, sql, total_rows, result, rows, row_count, df, calls,
                   outcome, progress_store, dirs>>

OpenFails(p) ==
    /\ pc[p] = "open"
    /\ ExportFailed(p, "open")
    /\ UNCHANGED <<cmdVars, calls, progress_store, fsVars>>

\* Lines 343-345: a non-empty batch is fetched.
FetchMany(p) ==
    /\ pc[p] = "fetch"
    /\ result[p] # << >>
    /\ LET k == Min(STREAMING_BATCH_SIZE, Len(result[p]))
       IN  /\ rows' = [rows EXCEPT ![p] = SubSeq(result[p], 1, k)]
           /\ result' = [result EXCEPT ![p] = Suffix(result[p], k + 1)]
    /\ pc' = [pc EXCEPT ![p] = IF writer[p] THEN "write" ELSE "header"]
    /\ UNCHANGED <<cmdVars, sql, total_rows, writer, row_count, df, held, calls,
                   outcome, progress_store, fsVars>>

\* Lines 343-345 with an empty batch: the loop and the `with` blocks are left.
FetchEmpty(p) ==
    /\ pc[p] = "fetch"
    /\ result[p] = << >>
    /\ ReleaseAll(p)
    /\ pc' = [pc EXCEPT ![p] = "complete"]
    /\ UNCHANGED <<cmdVars, locVars, calls, outcome, progress_store, fsVars>>

FetchFails(p) ==
    /\ pc[p] = "fetch"
    /\ ExportFailed(p, "fetchmany")
    /\ UNCHANGED <<cmdVars, calls, progress_store, fsVars>>

\* Lines 348-351: the header row, before the first data row.
WriteHeader(p) ==
    /\ pc[p] = "header"
    /\ files' = [files EXCEPT ![p].rows = Append(@, Header)]
    /\ writer' = [writer EXCEPT ![p] = TRUE]
    /\ pc' = [pc EXCEPT ![p] = "write"]
    /\ UNCHANGED <<cmdVars, sql, total_rows, result, rows, row_count, df, held,
                   calls, outcome, progress_store, dirs>>

\* Faulty variant: the progress update sits inside the row loop.
WriteRowUpdatingProgress(p) ==
    /\ pc[p] = "write"
    /\ rows[p] # << >>
    /\ files' = [files EXCEPT ![p].rows = Append(@, Head(rows[p]))]
    /\ rows' = [rows EXCEPT ![p] = Tail(@)]
    /\ row_count' = [row_count EXCEPT ![p] = @ + 1]
    /\ progress_store' =
         [progress_store EXCEPT ![client_id[p]].processed = row_count[p] + 1]
    /\ pc' = [pc EXCEPT ![p] = IF Len(rows[p]) = 1 THEN "update" ELSE "write"]
    /\ UNCHANGED <<cmdVars, sql, total_rows, result, writer, df, held, calls,
                   outcome, dirs>>

\* Lines 354-356: one row of the batch.
WriteRow(p) ==
    /\ pc[p] = "write"
    /\ rows[p] # << >>
    /\ files' = [files EXCEPT ![p].rows = Append(@, Head(rows[p]))]
    /\ rows' = [rows EXCEPT ![p] = Tail(@)]
    /\ row_count' = [row_count EXCEPT ![p] = @ + 1]
    /\ pc' = [pc EXCEPT ![p] = IF Len(rows[p]) = 1 THEN "update" ELSE "write"]
    /\ UNCHANGED <<cmdVars, sql, total_rows, result, writer, df, held, calls,
                   outcome, progress_store, dirs>>

\* writer.writerow raises (header or data row).
WriteFails(p) ==
    /\ pc[p] \in {"header", "write"}
    /\ ExportFailed(p, "write")
    /\ UNCHANGED <<cmdVars, calls, progress_store, fsVars>>

\* Faulty variant: the update also stores the rows so far as the total.
UpdateProgressWritingTotal(p) ==
    /\ pc[p] = "update"
    /\ progress_store' =
         [progress_store EXCEPT
            ![client_id[p]] = Entry(row_count[p], row_count[p], @.status)]
    /\ pc' = [pc EXCEPT ![p] = "fetch"]
    /\ UNCHANGED <<cmdVars, locVars, held, calls, outcome, fsVars>>

\* Faulty variant: processed is advanced by the batch size, not set to the
\* rows written.
UpdateProgressByBatchSize(p) ==
    /\ pc[p] = "update"
    /\ progress_store' =
         [progress_store EXCEPT
            ![client_id[p]].processed = @ + STREAMING_BATCH_SIZE]
    /\ pc' = [pc EXCEPT ![p] = "fetch"]
    /\ UNCHANGED <<cmdVars, locVars, held, calls, outcome, fsVars>>

\* Line 359.
UpdateProgress(p) ==
    /\ pc[p] = "update"
    /\ progress_store' =
         [progress_store EXCEPT ![client_id[p]].processed = row_count[p]]
    /\ pc' = [pc EXCEPT ![p] = "fetch"]
    /\ UNCHANGED <<cmdVars, locVars, held, calls, outcome, fsVars>>

\* Lines 362-368: the status is set and the result returned.
Complete(p) ==
    /\ pc[p] = "complete"
    /\ progress_store' =
         [progress_store EXCEPT ![client_id[p]].status = "completed"]
    /\ outcome' = [outcome EXCEPT ![p] =
                     [kind |-> "success", status |-> 200,
                      row_count |-> row_count[p], error |-> ""]]
    /\ pc' = [pc EXCEPT ![p] = "done"]
    /\ ClearLocals(p)
    /\ UNCHANGED <<cmdVars, held, calls, fsVars>>

(* -------------------------- _save_from_cache --------------------------- *)

\* Faulty variant: the replayed frame is not cut to the limit.
TruncateKeepingAll(d, limit) == d

\* df[:limit]
Truncate(d, limit) ==
    IF limit = NoLimit THEN d ELSE SubSeq(d, 1, Min(limit, Len(d)))

\* Lines 244-251: replay of the query on a cache miss.
ReplayDf(q, n) ==
    LET sl == get_sql_and_limit(q)
    IN  Truncate(ExecuteRows(sl[1], n), sl[2])

\* csv_utils.df_to_escaped_csv(df, index=False, ...): the header line and
\* one line per row of the frame.
df_to_escaped_csv(d) == <<Header>> \o d

\* Lines 221-241: the backend returns a blob, which is deserialized into a
\* frame of the payload's rows.
CacheHit(p) ==
    /\ pc[p] = "cache"
    /\ query[p].results_key
    /\ \E k \in 0..MaxRows : df' = [df EXCEPT ![p] = Range(1, k)]
    /\ pc' = [pc EXCEPT ![p] = "csv"]
    /\ UNCHANGED <<cmdVars, sql, total_rows, result, rows, writer, row_count,
                   held, calls, outcome, progress_store, fsVars>>

\* results_backend.get, zlib_decompress or _deserialize_results_payload
\* raises.
CacheFails(p) ==
    /\ pc[p] = "cache"
    /\ query[p].results_key
    /\ \E e \in {"fetch", "deserialize"} : ExportFailed(p, e)
    /\ UNCHANGED <<cmdVars, calls, progress_store, fsVars>>

\* Lines 242-251: no backend, no results key or an empty blob.
Replay(p) ==
    /\ pc[p] = "cache"
    /\ df' = [df EXCEPT ![p] = ReplayDf(query[p], full[p])]
    /\ pc' = [pc EXCEPT ![p] = "csv"]
    /\ UNCHANGED <<cmdVars, sql, total_rows, result, rows, writer, row_count,
                   held, calls, outcome, progress_store, fsVars>>

\* _get_sql_and_limit or database.get_df raises.
ReplayFails(p) ==
    /\ pc[p] = "cache"
    /\ ExportFailed(p, "get_df")
    /\ UNCHANGED <<cmdVars, calls, progress_store, fsVars>>

\* Lines 254-266: the frame is written in one pass and the result returned.
WriteCsv(p) ==
    /\ pc[p] = "csv"
    /\ files' = [files EXCEPT ![p] =
                   [exists |-> TRUE, rows |-> df_to_escaped_csv(df[p])]]
    /\ outcome' = [outcome EXCEPT ![p] =
                     [kind |-> "success", status |-> 200,
                      row_count |-> Len(df[p]), error |-> ""]]
    /\ pc' = [pc EXCEPT ![p] = "done"]
    /\ ClearLocals(p)
    /\ UNCHANGED <<cmdVars, held, calls, progress_store, dirs>>

\* open() raises, or f.write() raises after open() truncated the file.
WriteCsvFails(p) ==
    /\ pc[p] = "csv"
    /\ \/ UNCHANGED files
       \/ files' = [files EXCEPT ![p] = [exists |-> TRUE, rows |-> << >>]]
    /\ ExportFailed(p, "write")
    /\ UNCHANGED <<cmdVars, calls, progress_store, dirs>>

(* --------------------------- specification ------------------------------ *)

Validate(p, W) ==
    \/ ValidateNotFound(p)
    \/ ValidateDenied(p, W)
    \/ ValidateOk(p, W)

Coordinator(p, W) ==
    \/ Construct(p, W)
    \/ Validate(p, W)
    \/ GetWorkspacePath(p)
    \/ MakedirsFails(p)
    \/ RunDispatch(p)

Streaming(p) ==
    \/ StreamPrepare(p)
    \/ PrepareFails(p)
    \/ ProgressStart(p)
    \/ Connect(p)
    \/ ConnectFails(p)
    \/ CountOk(p)
    \/ SetExporting(p)
    \/ CountFails(p)
    \/ ExecuteQuery(p)
    \/ ExecuteFails(p)
    \/ OpenFile(p)
    \/ OpenFails(p)
    \/ FetchMany(p)
    \/ FetchEmpty(p)
    \/ FetchFails(p)
    \/ WriteHeader(p)
    \/ WriteRow(p)
    \/ WriteFails(p)
    \/ UpdateProgress(p)
    \/ Complete(p)

Standard(p) ==
    \/ CacheHit(p)
    \/ CacheFails(p)
    \/ Replay(p)
    \/ ReplayFails(p)
    \/ WriteCsv(p)
    \/ WriteCsvFails(p)

Step(p, W) == Coordinator(p, W) \/ Streaming(p) \/ Standard(p)

\* Commands run one after another; a client id is exported again and again.
Next == \E p \in Serial.procs : Step(p, Serial)

Spec == Init /\ [][Next]_vars

NextDistinct == \E p \in Distinct.procs : Step(p, Distinct)

SpecDistinct == Init /\ [][NextDistinct]_vars

NextResolve == \E p \in Resolve.procs : Step(p, Resolve)

SpecResolve == Init /\ [][NextResolve]_vars

NextOverlap == \E p \in Overlap.procs : Step(p, Overlap)

SpecOverlap == Init /\ [][NextOverlap]_vars

NextSanitize == \E p \in Names.procs : Construct(p, Names)

SpecSanitize == Init /\ [][NextSanitize]_vars

(* ------------------------------ claims ---------------------------------- *)

StreamingPcs ==
    {"connect", "count", "exporting", "execute", "open", "fetch", "header",
     "write", "update", "complete"}

Succeeded(p) == pc[p] = "done" /\ outcome[p].kind = "success"
Failed(p) == pc[p] = "done" /\ outcome[p].kind = "error"

\* A streaming export of p that has initialised its progress entry and has
\* not returned or raised yet.
Exporting(p) == streaming[p] /\ pc[p] \in StreamingPcs

\* N: the rows of the result the export's query yields.
ResultSize(p) == Len(ExecuteRows(StreamSql(query[p]), full[p]))

BatchMultiples(n) ==
    {k * STREAMING_BATCH_SIZE : k \in 0..n} \cap 0..n

C1_Observable(p) ==
    LET e == get_export_progress(client_id[p])
    IN  /\ Exporting(p) =>
              e.processed \in BatchMultiples(ResultSize(p)) \cup {ResultSize(p)}
        /\ (streaming[p] /\ Succeeded(p)) =>
              /\ e.status = "completed"
              /\ e.processed = ResultSize(p)
              /\ outcome[p].row_count = ResultSize(p)

C1_Monotonic(p) ==
    (Exporting(p) /\ (Exporting(p)' \/ Succeeded(p)')) =>
        progress_store'[client_id[p]].processed
            >= progress_store[client_id[p]].processed

\* C1: with one exporter per client id, every processed value a concurrent
\* get_export_progress can observe during a streaming export of N rows is a
\* multiple of the batch size that is <= N, or N; observations never
\* decrease; a successful export ends 'completed' with
\* processed = N = row_count.
C1_ProgressValues ==
    /\ [](\A p \in Procs : C1_Observable(p))
    /\ [][\A p \in Procs : C1_Monotonic(p)]_vars

\* A finished export whose last batch is a partial one, over a stale entry.
C1_Witness ==
    \E p \in Procs :
        /\ streaming[p] /\ Succeeded(p)
        /\ outcome[p].row_count = MaxRows
        /\ MaxRows % STREAMING_BATCH_SIZE # 0
        /\ get_export_progress(client_id[p]).processed = MaxRows

\* C2: a successful streaming export writes all N rows of the limit-free
\* result and returns row_count = N, whatever limit the executed SQL carries.
C2_StreamingIgnoresLimit ==
    \A p \in Procs :
        (streaming[p] /\ Succeeded(p)) =>
            /\ outcome[p].row_count = full[p]
            /\ files[p].rows = <<Header>> \o Range(1, full[p])
                 \/ (full[p] = 0 /\ files[p].rows = << >>)

\* C3: run() for a client id without a Query row fails with status 404 and
\* has no side effect: no directory, no file, no exporter call, no query, no
\* change of the progress store.
C3_NotFoundNoSideEffect ==
    [][\A p \in Procs :
          (pc[p] = "validate" /\ client_id[p] \notin QueryIds /\ pc'[p] # pc[p]) =>
              /\ pc'[p] = "done"
              /\ outcome'[p].kind = "error"
              /\ outcome'[p].status = 404
              /\ calls'[p] = 0
              /\ held'[p] = {}
              /\ UNCHANGED <<fsVars, progress_store, result, df>>]_vars

\* An unknown client id was refused while a stale entry of another client
\* id and a file of an earlier export exist.
C3_Witness ==
    \E p \in Procs :
        /\ Failed(p)
        /\ client_id[p] \notin QueryIds
        /\ outcome[p].status = 404
        /\ files[p] = OldFile
        /\ progress_store["A"].status = "completed"

\* C4: when the Query row exists and the access check denies it, run() fails
\* with status 403 before any export step: no exporter call, no directory or
\* file created, no progress entry created or changed.
C4_DeniedBeforeExport ==
    [][\A p \in Procs :
          ValidateDenied(p, Serial) =>
              /\ client_id[p] \in QueryIds
              /\ pc'[p] = "done"
              /\ outcome'[p].kind = "error"
              /\ outcome'[p].status = 403
              /\ calls'[p] = 0
              /\ held'[p] = {}
              /\ UNCHANGED <<fsVars, progress_store, result, df>>]_vars

C4_Witness ==
    \E p \in Procs :
        /\ Failed(p)
        /\ client_id[p] \in QueryIds
        /\ outcome[p].status = 403
        /\ ~dirs[p]
        /\ progress_store[client_id[p]] = NoEntry

\* What p's own position and locals say its progress entry holds.
OwnProcessed(p) ==
    LET fetched == ResultSize(p) - Len(result[p])
    IN  CASE pc[p] \in {"connect", "count", "exporting", "execute"} -> 0
          [] pc[p] \in {"header", "write", "update"} ->
                STREAMING_BATCH_SIZE * ((fetched - 1) \div STREAMING_BATCH_SIZE)
          [] OTHER -> fetched

OwnTotal(p) ==
    IF pc[p] \in {"connect", "count"} \/ total_rows[p] = Unbound
    THEN -1 ELSE ResultSize(p)

OwnStatus(p) ==
    IF pc[p] \in {"connect", "count", "exporting"} THEN "counting" ELSE "exporting"

C5_OwnEntry(p) ==
    LET e == progress_store[client_id[p]]
    IN  /\ Exporting(p) => e = Entry(OwnProcessed(p), OwnTotal(p), OwnStatus(p))
        /\ (streaming[p] /\ Succeeded(p)) =>
              /\ e.status = "completed"
              /\ e.processed = outcome[p].row_count

C5_OwnerWrites(c) ==
    progress_store'[c] # progress_store[c] =>
        \E p \in Procs :
            /\ client_id[p] = c
            /\ streaming[p]
            /\ pc[p] \in StreamingPcs \cup {"start"}
            /\ pc'[p] # pc[p]
            /\ \A o \in Procs \ {p} : pc'[o] = pc[o]

\* C5: under every interleaving of two streaming exports with distinct
\* client ids, each entry is written only by the export of its own client
\* id, holds at every point that export's own batches, count and status, and
\* ends 'completed' with processed equal to that export's row count.
C5_Independent ==
    /\ [](\A p \in Procs : C5_OwnEntry(p))
    /\ [][\A c \in ClientIds : C5_OwnerWrites(c)]_vars

\* Both exports are in their write loops with different progress.
C5_Witness ==
    /\ Exporting("p1") /\ Exporting("p2")
    /\ client_id["p1"] # client_id["p2"]
    /\ pc["p1"] = "fetch" /\ pc["p2"] = "write"
    /\ progress_store[client_id["p1"]].processed = STREAMING_BATCH_SIZE
    /\ progress_store[client_id["p2"]].processed = 0
    /\ progress_store[client_id["p1"]].total # progress_store[client_id["p2"]].total

AfterCountPcs ==
    {"execute", "open", "fetch", "header", "write", "update", "complete"}

C6_AfterCount(p) ==
    LET e == progress_store[client_id[p]]
    IN  (streaming[p] /\ pc[p] \in AfterCountPcs) =>
            /\ e.status = "exporting"
            /\ e.total = IF total_rows[p] = Unbound THEN -1 ELSE ResultSize(p)

C6_CountStep(p) ==
    /\ (pc[p] = "count" /\ pc'[p] # "count") =>
            /\ pc'[p] \in {"exporting", "execute"}
            /\ outcome'[p] = NoOutcome
            /\ held'[p] = held[p]
    /\ CountFails(p) =>
            /\ pc'[p] = "execute"
            /\ progress_store'[client_id[p]] =
                 Entry(progress_store[client_id[p]].processed, -1, "exporting")
    /\ (pc[p] = "exporting" /\ pc'[p] # "exporting") => pc'[p] = "execute"

\* C6: a failing COUNT query never aborts a streaming export: with or
\* without a count the status becomes 'exporting' and the export goes on to
\* the main query; total is the counted value on success and stays -1 on
\* failure.
C6_CountBestEffort ==
    /\ [](\A p \in Procs : C6_AfterCount(p))
    /\ [][\A p \in Procs : C6_CountStep(p)]_vars

\* Rows are being written although the count failed.
C6_Witness ==
    \E p \in Procs :
        /\ streaming[p] /\ pc[p] = "update"
        /\ total_rows[p] = Unbound
        /\ Embeddable(sql[p])
        /\ progress_store[client_id[p]].total = -1
        /\ row_count[p] = STREAMING_BATCH_SIZE

ExporterPcs == StreamingPcs \cup {"prepare", "start", "cache", "csv"}

\* The descriptions of the errors the step at a position can raise.
ErrorsAt(at) ==
    CASE at = "prepare" -> {"parse"}
      [] at = "connect" -> {"connect"}
      [] at = "execute" -> {"execute"}
      [] at = "open" -> {"open"}
      [] at = "fetch" -> {"fetchmany"}
      [] at \in {"header", "write", "csv"} -> {"write"}
      [] at = "cache" -> {"fetch", "deserialize", "get_df"}
      [] OTHER -> {}

C7_Wrapped(p) ==
    (pc[p] \in ExporterPcs /\ outcome'[p].kind = "error") =>
        /\ pc'[p] = "done"
        /\ outcome'[p].status = 500
        /\ outcome'[p].error \in ErrorsAt(pc[p])
        /\ calls'[p] = 1

\* C7: every exception the selected exporter raises, at any of its steps,
\* leaves run() as the one export-failed condition (status 500) carrying the
\* original error's description, and the exporter is called at most once per
\* run.
C7_UniformExportFailed ==
    /\ [](\A p \in Procs :
            /\ calls[p] <= 1
            /\ pc[p] \in ExporterPcs => calls[p] = 1)
    /\ [][\A p \in Procs : C7_Wrapped(p)]_vars

\* A fetch failed in the middle of the loop, after rows were written.
C7_Witness ==
    \E p \in Procs :
        /\ Failed(p)
        /\ outcome[p].status = 500
        /\ outcome[p].error = "fetchmany"
        /\ calls[p] = 1
        /\ Len(files[p].rows) > STREAMING_BATCH_SIZE

\* C8: apart from the absorbed row count, every failure anywhere in run()
\* (validation, destination-path resolution, export) reaches the caller as
\* query-not-found, access-denied or export-failed.
C8_OnlyStructured ==
    \A p \in Procs : Failed(p) => outcome[p].status \in {404, 403, 500}

C9_Held(p) ==
    held[p] =
        CASE pc[p] \in {"count", "exporting", "execute", "open"} ->
                {"engine", "connection"}
          [] pc[p] \in {"fetch", "header", "write", "update"} ->
                {"engine", "connection", "file"}
          [] OTHER -> {}

\* C9: on every exit path of a streaming export (normal return, failure of
\* the main query, failure opening the file, an exception in the loop) the
\* connection, the engine scope and the file handle it acquired are released
\* by the time it returns or raises.
C9_Released == \A p \in Procs : C9_Held(p)

\* A write failed in the loop, with all three resources acquired before.
C9_Witness ==
    \E p \in Procs :
        /\ streaming[p] /\ Failed(p)
        /\ outcome[p].error = "write"
        /\ files[p].rows # << >>
        /\ held[p] = {}

\* C10: after every successful export of N >= 0 rows the file is the header
\* row, once and first, followed by the N result rows in the order fetched.
C10_HeaderThenRows ==
    \A p \in Procs :
        Succeeded(p) =>
            /\ files[p].exists
            /\ Len(files[p].rows) = outcome[p].row_count + 1
            /\ files[p].rows[1] = Header
            /\ \A i \in 2..Len(files[p].rows) :
                 /\ files[p].rows[i] >= 1
                 /\ i > 2 => files[p].rows[i] = files[p].rows[i - 1] + 1

\* The Query row of p has been looked up.
Looked(p) == query[p] # NoQuery

\* C11: limit resolution.  A Query row with a select_sql resolves to that
\* text and no limit.  Otherwise it resolves to executed_sql and the limit of
\* its last statement: no limit when that statement has none, the detected
\* limit less exactly one when the limiting factor is QUERY, DROPDOWN or
\* QUERY_AND_DROPDOWN, and the detected limit unchanged for any other
\* factor.  The streaming export's SQL starts from the resolved text.
C11_LimitResolution ==
    \A p \in Procs :
        Looked(p) =>
            LET q == query[p]
                detected == get_limit_value(q.executed_sql)
                sl == get_sql_and_limit(q)
            IN  /\ q.select_sql # NoSql => sl = <<q.select_sql, NoLimit>>
                /\ q.select_sql = NoSql =>
                      /\ sl[1] = q.executed_sql
                      /\ detected = NoLimit => sl[2] = NoLimit
                      /\ ( /\ detected # NoLimit
                           /\ q.limiting_factor
                                 \in {"QUERY", "DROPDOWN", "QUERY_AND_DROPDOWN"} )
                         => sl[2] = detected - 1
                      /\ ( /\ detected # NoLimit
                           /\ q.limiting_factor
                                 \notin {"QUERY", "DROPDOWN",
                                         "QUERY_AND_DROPDOWN"} )
                         => sl[2] = detected
                /\ pc[p] = "start" => sql[p] = ReSubLimit(sl[1])

\* A replay has resolved a detected limit of 3 under QUERY_AND_DROPDOWN to
\* 2, and the frame of a 3-row result was cut to 2 rows.
C11_Witness ==
    \E p \in Procs :
        /\ pc[p] = "csv"
        /\ ~query[p].results_key
        /\ query[p].select_sql = NoSql
        /\ query[p].limiting_factor = "QUERY_AND_DROPDOWN"
        /\ get_limit_value(query[p].executed_sql) = 3
        /\ get_sql_and_limit(query[p])[2] = 2
        /\ full[p] = 3
        /\ Len(df[p]) = 2

\* C12: the row count of a standard-mode export is the number of rows
\* written.  A replay that returns N rows under a resolved limit L leaves a
\* frame of min(N, L) rows, or of N rows when there is no limit; a cache hit
\* leaves the payload's rows, uncut.  The frame is then written whole, one
\* line per row under the header, and row_count is its length.
C12_RowsWritten ==
    [][\A p \in Procs :
         /\ Replay(p) =>
               LET sl == get_sql_and_limit(query[p])
                   N == Len(ExecuteRows(sl[1], full[p]))
                   L == sl[2]
               IN  Len(df'[p]) = IF L = NoLimit THEN N
                                 ELSE IF N <= L THEN N ELSE L
         /\ (pc[p] = "csv" /\ pc'[p] = "done" /\ outcome'[p].kind = "success")
               => /\ outcome'[p].row_count = Len(df[p])
                  /\ Len(files'[p].rows) = 1 + Len(df[p])
                  /\ \A i \in 1..Len(df[p]) : files'[p].rows[i + 1] = df[p][i]
      ]_vars

\* A replay of 3 rows was cut to the resolved limit 2 and written (the row
\* has no results key, so the frame cannot come from the cache).
C12_Witness ==
    \E p \in Procs :
        /\ ~streaming[p]
        /\ Succeeded(p)
        /\ ~query[p].results_key
        /\ get_sql_and_limit(query[p])[2] = 2
        /\ Len(ExecuteRows(get_sql_and_limit(query[p])[1], full[p])) = 3
        /\ outcome[p].row_count = 2
        /\ Len(files[p].rows) = 3

\* A cache hit of 3 rows was written whole although the resolved limit is 1.
C12_HitUncut ==
    \E p \in Procs :
        /\ ~streaming[p]
        /\ Succeeded(p)
        /\ query[p].results_key
        /\ get_sql_and_limit(query[p])[2] = 1
        /\ outcome[p].row_count = 3
        /\ Len(files[p].rows) = 4

\* C13: the step that starts a streaming export's progress tracking replaces
\* the entry of its client id, whatever that entry held, with exactly
\* processed 0, total -1 and status 'counting', and the export has executed
\* no query by then: it holds no connection and no result.
C13_ResetOnStart ==
    [][\A p \in Procs :
         (pc[p] = "start" /\ pc'[p] # "start")
           => /\ progress_store'[client_id[p]]
                   = [processed |-> 0, total |-> -1, status |-> "counting"]
              /\ held[p] = {}
              /\ result[p] = << >>
              /\ total_rows[p] = Unbound
      ]_vars

\* An export of MaxRows rows for a client id has completed, and a second
\* export for the same id has just reset the entry it left.
C13_Witness ==
    \E p, o \in Procs :
        /\ p # o
        /\ client_id[o] = client_id[p]
        /\ streaming[o] /\ Succeeded(o)
        /\ outcome[o].row_count = MaxRows
        /\ streaming[p] /\ pc[p] = "connect"
        /\ progress_store[client_id[p]] = Entry(0, -1, "counting")

\* A command has been constructed on thread p.
Constructed(p) == pc[p] # "idle"

\* C14: the sanitizers are idempotent.  The file name and the subfolder a
\* command holds are results of sanitize_filename and sanitize_subfolder;
\* applying the same sanitizer to them again returns them unchanged.
C14_Idempotent ==
    \A p \in Procs :
        Constructed(p) =>
            /\ sanitize_filename(filename[p]) = filename[p]
            /\ sanitize_subfolder(subfolder[p]) = subfolder[p]

\* The name "csv.csv": the first application appended the suffix to a name
\* that was only the extension's letters, the second leaves it.
C14_Witness ==
    \E p \in Procs :
        /\ Constructed(p)
        /\ filename[p] = <<"c", "s", "v">> \o DotCsv
        /\ sanitize_filename(filename[p]) = filename[p]

\* name is made of word characters, dots and dashes, does not start with a
\* dot, and is longer than a four-character suffix.
WellFormedName(name) ==
    /\ Len(name) > Len(DotCsv)
    /\ \A i \in 1..Len(name) : name[i] \in WordChars \cup {".", "-"}
    /\ name[1] # "."

\* C15 as stated: the sanitized file name is never empty, matches
\* ^[\w.-]+\.csv$, has no leading dot and ends in ".csv".
C15_MatchesCsvPattern ==
    \A p \in Procs :
        Constructed(p) =>
            /\ WellFormedName(filename[p])
            /\ EndsWith(filename[p], DotCsv)

\* C15, amended: the sanitized file name is never empty, is made only of
\* word characters, dots and dashes, has no leading dot, and ends in ".csv"
\* in some letter case, with at least one character before it: it matches
\* ^[\w.-]+\.csv$ when letter case is ignored.
C15_MatchesCsvPatternAnyCase ==
    \A p \in Procs :
        Constructed(p) =>
            /\ WellFormedName(filename[p])
            /\ EndsWith(Lower(filename[p]), DotCsv)

\* A name that came with an upper-case extension and kept it.
C15_Witness ==
    \E p \in Procs :
        /\ Constructed(p)
        /\ filename[p] = <<"a", ".", "C", "S", "V">>

\* The directories a path leads through, as os.path.normpath resolves them:
\* empty and "." segments are skipped, ".." steps back to the parent.
RECURSIVE Resolved(_, _)
Resolved(segments, above) ==
    IF segments = << >> THEN above
    ELSE LET seg == Head(segments)
         IN  IF seg = << >> \/ seg = <<".">>
             THEN Resolved(Tail(segments), above)
             ELSE IF seg = <<".", ".">>
             THEN Resolved(Tail(segments),
                           SubSeq(above, 1, Len(above) - 1))
             ELSE Resolved(Tail(segments), Append(above, seg))

\* path lies below the directory root.
Below(path, root) ==
    LET at == Resolved(Split(path), << >>)
        top == Resolved(Split(root), << >>)
    IN  /\ Len(at) > Len(top)
        /\ SubSeq(at, 1, Len(top)) = top

\* C16: path containment.  The subfolder a command holds has no ".."
\* segment, no empty segment and no leading "/", its file name has no path
\* separator, and the path joined from the workspace root, the subfolder
\* and the file name lies below the workspace root.
C16_Contained ==
    \A p \in Procs :
        Constructed(p) =>
            /\ \A i \in 1..Len(Split(subfolder[p])) :
                  /\ Split(subfolder[p])[i] # <<".", ".">>
                  /\ Split(subfolder[p])[i] # << >>
            /\ subfolder[p][1] # "/"
            /\ \A i \in 1..Len(filename[p]) : filename[p][i] # "/"
            /\ Below(filepath(subfolder[p], filename[p]), WorkDir)
            /\ Below(full_dir(subfolder[p]), WorkDir)

\* A nested subfolder: the file is placed two directories below the root.
C16_Witness ==
    \E p \in Procs :
        /\ Constructed(p)
        /\ subfolder[p] = <<"a", "/", "-">>
        /\ filepath(subfolder[p], filename[p])
              = WorkDir \o <<"/", "a", "/", "-", "/", "a">> \o DotCsv

\* The data rows in the file at p's destination path.
DataRowsWritten(p) ==
    Cardinality({i \in 1..Len(files[p].rows) : files[p].rows[i] >= 1})

\* C17: with one exporter per client id, during a streaming export the
\* processed value of its entry never exceeds the number of data rows
\* written to the destination file, and processed changes only when no row
\* of the fetched batch is left to write, to the cumulative row count.
C17_NeverAhead ==
    /\ [](\A p \in Procs :
            Exporting(p) =>
                get_export_progress(client_id[p]).processed
                    <= DataRowsWritten(p))
    /\ [][\A p \in Procs :
            ( /\ Exporting(p)
              /\ progress_store'[client_id[p]].processed
                    # progress_store[client_id[p]].processed )
            => /\ rows[p] = << >>
               /\ progress_store'[client_id[p]].processed = row_count[p]
               /\ row_count[p] = DataRowsWritten(p)
       ]_vars

\* The first batch has been written and reported, the second is being
\* written: the file is one row ahead of processed.
C17_Witness ==
    \E p \in Procs :
        /\ Exporting(p)
        /\ pc[p] = "update"
        /\ get_export_progress(client_id[p]).processed = STREAMING_BATCH_SIZE
        /\ DataRowsWritten(p) > STREAMING_BATCH_SIZE

\* The streaming export of p raised after it had created its progress entry.
FailedAfterStart(p) ==
    /\ streaming[p]
    /\ Failed(p)
    /\ outcome[p].error \in {"connect", "execute", "open", "fetchmany", "write"}

\* C18: a streaming export that created its progress entry and has ended has
\* left the entry in a terminal status: 'completed' when it returned,
\* 'failed' when it raised, never 'counting' or 'exporting'.
C18_TerminalStatus ==
    \A p \in Procs :
        /\ (streaming[p] /\ Succeeded(p))
              => get_export_progress(client_id[p]).status = "completed"
        /\ FailedAfterStart(p)
              => get_export_progress(client_id[p]).status = "failed"

StatusRank(status) ==
    CASE status = "counting" -> 1
      [] status = "exporting" -> 2
      [] status = "completed" -> 3
      [] OTHER -> 0

\* The entry of p's client id is the one p's streaming export initialised:
\* the export is running or has returned.
Tracked(p) == Exporting(p) \/ (streaming[p] /\ Succeeded(p))

\* The status only moves forward, and total changes only from -1 and only
\* while the status is 'counting'.
C19_Forward(p) ==
    LET e == progress_store[client_id[p]]
        f == progress_store'[client_id[p]]
    IN  (Tracked(p) /\ Tracked(p)') =>
            /\ StatusRank(f.status) >= StatusRank(e.status)
            /\ StatusRank(f.status) >= 1
            /\ f.total # e.total => (e.status = "counting" /\ e.total = -1)

C19_ProcessedImpliesStatus(p) ==
    LET e == get_export_progress(client_id[p])
    IN  Tracked(p) =>
            /\ e.status = "counting" => e.processed = 0
            /\ e.processed > 0 => e.status \in {"exporting", "completed"}

\* C19 as stated: within one streaming export the status only moves
\* counting -> exporting -> completed; status 'counting' implies
\* processed = 0 and total = -1; processed > 0 implies status 'exporting' or
\* 'completed'; total is written at most once, while the status is
\* 'counting'.
C19_StatusOrder ==
    /\ [](\A p \in Procs :
            /\ C19_ProcessedImpliesStatus(p)
            /\ (Tracked(p)
                  /\ get_export_progress(client_id[p]).status = "counting")
                 => get_export_progress(client_id[p]).total = -1)
    /\ [][\A p \in Procs : C19_Forward(p)]_vars

\* C19, amended: as stated, except that status 'counting' implies
\* total = -1 only until the count has been stored: between the store of
\* total and the store of status 'exporting' the entry shows the counted
\* total under status 'counting'.
C19_StatusOrderCountStored ==
    /\ [](\A p \in Procs :
            /\ C19_ProcessedImpliesStatus(p)
            /\ (Tracked(p)
                  /\ get_export_progress(client_id[p]).status = "counting")
                 => \/ get_export_progress(client_id[p]).total = -1
                    \/ /\ pc[p] = "exporting"
                       /\ get_export_progress(client_id[p]).total
                             = total_rows[p])
    /\ [][\A p \in Procs : C19_Forward(p)]_vars

\* The count of a MaxRows-row result has been stored and the status is
\* still 'counting'.
C19_Witness ==
    \E p \in Procs :
        /\ Exporting(p)
        /\ pc[p] = "exporting"
        /\ get_export_progress(client_id[p])
              = Entry(0, MaxRows, "counting")

\* The streaming exports requested for client id c whose Query row is known.
ExportsOf(c) == {p \in Procs : streaming[p] /\ client_id[p] = c /\ Looked(p)}

\* A thread resets the entry of client id c in this step.
ResetOf(c) ==
    \E p \in Procs :
        client_id[p] = c /\ pc[p] = "start" /\ pc'[p] = "connect"

\* C20 as stated: with exports for the same client id at any time, also
\* overlapping, processed never decreases from one reset of the entry to the
\* next, and status 'completed' is seen only while no export for that
\* client id is running.
C20_Consistent ==
    /\ [](\A c \in ClientIds :
            get_export_progress(c).status = "completed"
                => \A p \in Procs : client_id[p] = c => ~Exporting(p))
    /\ [][\A c \in ClientIds :
            ~ResetOf(c)
                => progress_store'[c].processed >= progress_store[c].processed
       ]_vars

\* C20, amended: with overlapping exports for the same client id the entry
\* is last-write-wins.  Its processed value is always 0 or a batch boundary
\* of one of the exports for that id, and it changes only by a reset to 0 or
\* by an export storing its own row count; status 'completed' is seen only
\* after one export for that id has returned.  Neither a non-decreasing
\* processed nor the end of every export follows.
C20_LastWriteWins ==
    /\ [](\A c \in ClientIds :
            LET e == get_export_progress(c)
            IN  /\ e.status # "absent" =>
                      e.processed \in
                          {0} \cup UNION {BatchMultiples(ResultSize(p))
                                            \cup {ResultSize(p)} :
                                          p \in ExportsOf(c)}
                /\ e.status = "completed" =>
                      \E p \in ExportsOf(c) : Succeeded(p))
    /\ [][\A c \in ClientIds :
            progress_store'[c].processed # progress_store[c].processed
                => \/ ResetOf(c) /\ progress_store'[c].processed = 0
                   \/ \E p \in ExportsOf(c) :
                         /\ pc[p] = "update" /\ pc'[p] = "fetch"
                         /\ progress_store'[c].processed = row_count[p]
       ]_vars

\* Two overlapping exports for one client id: one has returned and left
\* status 'completed', the other is still running and has since stored a
\* smaller processed value than the first one's final count.
C20_Witness ==
    \E p, o \in Procs :
        /\ p # o
        /\ client_id[p] = client_id[o]
        /\ streaming[o] /\ Succeeded(o)
        /\ Exporting(p)
        /\ get_export_progress(client_id[p]).status = "completed"
        /\ get_export_progress(client_id[p]).processed > 0
        /\ get_export_progress(client_id[p]).processed < outcome[o].row_count

====
